---- MODULE Spec2Model ----
(***************************************************************************)
(* A model of two view components of the desktop client:                   *)
(*   - SideBySideDiff (app/src/ui/diff/side-by-side-diff.tsx): the row     *)
(*     builder, the drag-selection tracker, the hover indicator, the hunk  *)
(*     click and discard menus, and the asynchronous syntax-highlighting   *)
(*     chain;                                                              *)
(*   - CloneRepository (the clone dialog): URL/path editing, the           *)
(*     asynchronous destination-exists check and the submission.           *)
(*                                                                         *)
(* Optional values (undefined / null) are sequences of length 0 or 1.      *)
(***************************************************************************)
EXTENDS Integers, Sequences, FiniteSets, TLC

\* ------------------------------------------------------------------ bounds

\* A diff has at most MaxLines lines; diff-relative line indices are 0..MaxLines-1.
MaxLines == 3
\* At most MaxInflight syntax-highlighting requests are in flight at once.
MaxInflight == 2
\* At most MaxChecks destination-exists probes are in flight at once.
MaxChecks == 2
\* A diff handed to the row builder on its own has at most MaxRunLines lines.
MaxRunLines == 4

\* ----------------------------------------------------------------- helpers

Undefined == <<>>
Some(v) == <<v>>

Min(a, b) == IF a <= b THEN a ELSE b
Max(a, b) == IF a >= b THEN a ELSE b

LineIndices == 0 .. (MaxLines - 1)

\* ------------------------------------------------------------- diff model

DiffLineTypes == {"Context", "Add", "Delete", "Hunk"}

\* The number of lines before position i (1-based) of the given types.
CountBefore(types, i, counted) ==
  Cardinality({j \in 1 .. (i - 1) : types[j] \in counted})

\* One DiffLine: the old line number is present for Context/Delete lines, the
\* new line number for Context/Add lines; the content is abstracted to the
\* line's position in the diff text.
DiffLine(types, i) ==
  [ type              |-> types[i],
    content           |-> i - 1,
    oldLineNumber     |-> IF types[i] \in {"Context", "Delete"}
                          THEN Some(1 + CountBefore(types, i, {"Context", "Delete"}))
                          ELSE Undefined,
    newLineNumber     |-> IF types[i] \in {"Context", "Add"}
                          THEN Some(1 + CountBefore(types, i, {"Context", "Add"}))
                          ELSE Undefined,
    noTrailingNewLine |-> FALSE ]

\* The hunk whose header is line `start` (1-based) of the diff text: its lines
\* run to the line before the next header; unifiedDiffStart is the 0-based
\* index of the header in the diff.
DiffHunk(types, start) ==
  LET later == {j \in (start + 1) .. Len(types) : types[j] = "Hunk"}
      last  == IF later = {} THEN Len(types)
               ELSE (CHOOSE j \in later : \A k \in later : j <= k) - 1
  IN [ unifiedDiffStart |-> start - 1,
       lines            |-> [i \in 1 .. (last - start + 1) |-> DiffLine(types, start + i - 1)] ]

\* An ITextDiff: the text (abstracted to the sequence of its line types) and
\* the hunks parsed from it, in order.
TextDiff(types) ==
  LET headers == {j \in 1 .. Len(types) : types[j] = "Hunk"}
      Nth(k)  == CHOOSE j \in headers : Cardinality({h \in headers : h <= j}) = k
  IN [ text  |-> types,
       hunks |-> [k \in 1 .. Cardinality(headers) |-> DiffHunk(types, Nth(k))] ]

\* Every diff text of 1..MaxLines lines that starts with a hunk header.
DiffTexts ==
  UNION { {t \in [1 .. n -> DiffLineTypes] : t[1] = "Hunk"} : n \in 1 .. MaxLines }

\* --------------------------------------------------------- file / selection

\* canSelect: only a working-directory file change carries a selection.
canSelect(file) == file.kind = "WorkingDirectoryFileChange"

\* DiffSelection, as the set of the selected diff-relative line indices.
isSelected(selection, lineIndex) == lineIndex \in selection

withRangeSelection(selection, from, length, selected) ==
  LET range == from .. (from + length - 1)
  IN IF selected THEN selection \cup range ELSE selection \ range

withSelectNone(selection) == {}

\* isInTemporarySelection: the line lies inside the transient range, whichever
\* end is the anchor.
isInTemporarySelection(s, ix) ==
  ix >= Min(s.from, s.to) /\ ix <= Max(s.from, s.to)

\* ------------------------------------------------------------ row builder

isInSelection_DeselectInverted(diffLineNumber, file, temporarySelection) ==
  IF ~canSelect(file) THEN FALSE
  ELSE LET isInStoredSelection == isSelected(file.selection, diffLineNumber)
       IN IF temporarySelection = Undefined THEN isInStoredSelection
          ELSE LET isInTemporary ==
                     isInTemporarySelection(temporarySelection[1], diffLineNumber)
               IN IF temporarySelection[1].isSelected
                  THEN isInStoredSelection \/ isInTemporary
                  ELSE isInStoredSelection \/ ~isInTemporary

isInSelection(diffLineNumber, file, temporarySelection) ==
  IF ~canSelect(file) THEN FALSE
  ELSE LET isInStoredSelection == isSelected(file.selection, diffLineNumber)
       IN IF temporarySelection = Undefined THEN isInStoredSelection
          ELSE LET isInTemporary ==
                     isInTemporarySelection(temporarySelection[1], diffLineNumber)
               IN IF temporarySelection[1].isSelected
                  THEN isInStoredSelection \/ isInTemporary
                  ELSE isInStoredSelection /\ ~isInTemporary

\* forceUnwrap throws on an absent line number.
Unwraps(l, lineToUse) == l.line[lineToUse] # Undefined

getDataFromLine(l, lineToUse, file, temporarySelection) ==
  [ content            |-> l.line.content,
    lineNumber         |-> l.line[lineToUse][1],
    diffLineNumber     |-> l.lineNumber,
    isSelected         |-> isInSelection(l.lineNumber, file, temporarySelection),
    noNewLineIndicator |-> l.line.noTrailingNewLine ]

IsAdd(l) == l.line.type = "Add"
IsDelete(l) == l.line.type = "Delete"

\* getModifiedRows throws when a line of the run lacks the number it displays.
ModifiedRowsThrow(addedDeletedLines) ==
  \E i \in 1 .. Len(addedDeletedLines) :
     LET l == addedDeletedLines[i]
     IN ~Unwraps(l, IF IsAdd(l) THEN "newLineNumber" ELSE "oldLineNumber")

\* getModifiedRows with its row loop altered: `unpaired` tells whether the
\* rows past the shorter side are kept, `tokens(a, d)` is the token flag of a
\* run of a added and d deleted lines, `before(deletedLines, numLine)` is the
\* deleted line paired at row numLine.
ModifiedRowsAltered(addedDeletedLines, file, temporarySelection,
                    unpaired, tokens(_, _), before(_, _)) ==
  IF Len(addedDeletedLines) = 0 THEN <<>>
  ELSE
    LET hunkStartLine == addedDeletedLines[1].lineNumber
        addedLines    == SelectSeq(addedDeletedLines, IsAdd)
        deletedLines  == SelectSeq(addedDeletedLines, IsDelete)
        Row(numLine) ==
          IF numLine < Len(addedLines) /\ numLine < Len(deletedLines)
          THEN [ type |-> "Modified",
                 beforeData |-> getDataFromLine(before(deletedLines, numLine),
                                    "oldLineNumber", file, temporarySelection),
                 afterData  |-> getDataFromLine(addedLines[numLine + 1],
                                    "newLineNumber", file, temporarySelection),
                 hunkStartLine |-> hunkStartLine,
                 displayDiffTokens |-> tokens(Len(addedLines), Len(deletedLines)) ]
          ELSE IF numLine < Len(deletedLines)
          THEN [ type |-> "Deleted",
                 data |-> getDataFromLine(before(deletedLines, numLine),
                              "oldLineNumber", file, temporarySelection),
                 hunkStartLine |-> hunkStartLine ]
          ELSE [ type |-> "Added",
                 data |-> getDataFromLine(addedLines[numLine + 1],
                              "newLineNumber", file, temporarySelection),
                 hunkStartLine |-> hunkStartLine ]
        count == IF unpaired THEN Max(Len(addedLines), Len(deletedLines))
                 ELSE Min(Len(addedLines), Len(deletedLines))
    IN [i \in 1 .. count |-> Row(i - 1)]

\* The loop stops at the shorter side: the unpaired lines get no row.
getModifiedRows_StopsAtShorterSide(addedDeletedLines, file, temporarySelection) ==
  ModifiedRowsAltered(addedDeletedLines, file, temporarySelection, FALSE,
                      LAMBDA a, d : a = d, LAMBDA dl, n : dl[n + 1])

\* Every Modified row asks for intra-line tokens, whatever the run's counts.
getModifiedRows_AlwaysDiffTokens(addedDeletedLines, file, temporarySelection) ==
  ModifiedRowsAltered(addedDeletedLines, file, temporarySelection, TRUE,
                      LAMBDA a, d : TRUE, LAMBDA dl, n : dl[n + 1])

\* The deleted lines are taken from the end of the run backwards.
getModifiedRows_DeletedBackwards(addedDeletedLines, file, temporarySelection) ==
  ModifiedRowsAltered(addedDeletedLines, file, temporarySelection, TRUE,
                      LAMBDA a, d : a = d, LAMBDA dl, n : dl[Len(dl) - n])

getModifiedRows(addedDeletedLines, file, temporarySelection) ==
  IF Len(addedDeletedLines) = 0 THEN <<>>
  ELSE
    LET hunkStartLine == addedDeletedLines[1].lineNumber
        addedLines    == SelectSeq(addedDeletedLines, IsAdd)
        deletedLines  == SelectSeq(addedDeletedLines, IsDelete)
        shouldDisplayDiffInChunk == Len(addedLines) = Len(deletedLines)
        Row(numLine) ==
          IF numLine < Len(addedLines) /\ numLine < Len(deletedLines)
          THEN [ type |-> "Modified",
                 beforeData |-> getDataFromLine(deletedLines[numLine + 1],
                                    "oldLineNumber", file, temporarySelection),
                 afterData  |-> getDataFromLine(addedLines[numLine + 1],
                                    "newLineNumber", file, temporarySelection),
                 hunkStartLine |-> hunkStartLine,
                 displayDiffTokens |-> shouldDisplayDiffInChunk ]
          ELSE IF numLine < Len(deletedLines)
          THEN [ type |-> "Deleted",
                 data |-> getDataFromLine(deletedLines[numLine + 1],
                              "oldLineNumber", file, temporarySelection),
                 hunkStartLine |-> hunkStartLine ]
          ELSE [ type |-> "Added",
                 data |-> getDataFromLine(addedLines[numLine + 1],
                              "newLineNumber", file, temporarySelection),
                 hunkStartLine |-> hunkStartLine ]
    IN [i \in 1 .. Max(Len(addedLines), Len(deletedLines)) |-> Row(i - 1)]

\* A failed assertion is swallowed: the call returns, with no rows.
Fatal_Swallowed == [fatal |-> FALSE, rows |-> <<>>]

\* The result of a row-building call: the rows, or a fatal error (an assertion
\* failure or forceUnwrap throwing) with no rows.
Fatal == [fatal |-> TRUE, rows |-> <<>>]
Rows(rows) == [fatal |-> FALSE, rows |-> rows]

\* The loop of getDiffRowsFromHunk from hunk.lines[num] (1-based) on, with
\* the rows emitted and the run accumulated so far.
RECURSIVE ScanHunkLines(_, _, _, _, _, _)
ScanHunkLines(hunk, num, rows, modifiedLines, file, temporarySelection) ==
  LET throws  == Len(modifiedLines) > 0 /\ ModifiedRowsThrow(modifiedLines)
      flushed == IF Len(modifiedLines) > 0
                 THEN rows \o getModifiedRows(modifiedLines, file, temporarySelection)
                 ELSE rows
  IN
  IF num > Len(hunk.lines)
  THEN IF throws THEN Fatal ELSE Rows(flushed)
  ELSE
    LET line == hunk.lines[num] IN
    IF line.type = "Delete" \/ line.type = "Add"
    THEN ScanHunkLines(hunk, num + 1, rows,
           Append(modifiedLines,
                  [line |-> line, lineNumber |-> hunk.unifiedDiffStart + (num - 1)]),
           file, temporarySelection)
    ELSE IF throws THEN Fatal
    ELSE IF line.type = "Hunk"
    THEN ScanHunkLines(hunk, num + 1,
           Append(flushed, [type |-> "Hunk", content |-> line.content]),
           <<>>, file, temporarySelection)
    ELSE IF line.type = "Context"
    THEN IF line.oldLineNumber = Undefined \/ line.newLineNumber = Undefined
         THEN Fatal
         ELSE ScanHunkLines(hunk, num + 1,
                Append(flushed, [ type |-> "Context",
                                  content |-> line.content,
                                  beforeLineNumber |-> line.oldLineNumber[1],
                                  afterLineNumber  |-> line.newLineNumber[1] ]),
                <<>>, file, temporarySelection)
    ELSE Fatal

getDiffRowsFromHunk(hunk, file, temporarySelection) ==
  ScanHunkLines(hunk, 1, <<>>, <<>>, file, temporarySelection)

RECURSIVE HunkRowsFrom(_, _, _, _, _)
HunkRowsFrom(hunks, k, rows, file, temporarySelection) ==
  IF k > Len(hunks) THEN Rows(rows)
  ELSE LET r == getDiffRowsFromHunk(hunks[k], file, temporarySelection)
       IN IF r.fatal THEN Fatal
          ELSE HunkRowsFrom(hunks, k + 1, rows \o r.rows, file, temporarySelection)

getDiffRows(diff, file, temporarySelection) ==
  HunkRowsFrom(diff.hunks, 1, <<>>, file, temporarySelection)

\* ---------------------------------------------------------------- state

VARIABLES
  props,      \* SideBySideDiff: this.props
  state,      \* SideBySideDiff: this.state
  listeners,  \* the document's 'mouseup' listener list
  calls,      \* the collaborator calls made by the handler that ran last
  inflight,   \* the initDiffSyntaxMode invocations awaiting an async step
  rows,       \* the rows the last render built (Undefined before a render)
  mounted,    \* whether componentDidMount has run
  menu,       \* the contextual menu on screen (Undefined when none is)
  handled,    \* the click or discard handler that ran last
  gestureFile, \* the id of the file on display when the last drag started
  cstate,     \* CloneRepository: this.state
  checks,     \* the FS.exists probes whose callback has not run yet
  fs,         \* the destination paths that exist on disk
  submission, \* the clone() invocation awaiting an async step (Undefined when none)
  ccalls,     \* the collaborator calls the dialog has made, in order
  dismissed,  \* whether onDismissed has been called (the dialog is closed)
  defaultDir, \* the directory the default-dir store holds
  chosenPath  \* the destination the user last left: the path at open, then
              \* the latest typed or picked one

menuVars == <<menu, handled>>
diffVars ==
  <<props, state, listeners, calls, inflight, rows, mounted, menu, handled, gestureFile>>
submitVars == <<submission, ccalls, dismissed, defaultDir>>
cloneVars ==
  <<cstate, checks, fs, submission, ccalls, dismissed, defaultDir, chosenPath>>
vars ==
  <<props, state, listeners, calls, inflight, rows, mounted, menu, handled, gestureFile,
    cloneVars>>

\* ------------------------------------------------ SideBySideDiff: selection

\* The constructor: this.state = {}
InitialState ==
  [ beforeTokens |-> Undefined,
    afterTokens  |-> Undefined,
    selectingRow |-> Undefined,
    selection    |-> Undefined,
    hoveredHunk  |-> Undefined ]

\* The files a parent may display: a working-directory change with any
\* persisted selection, or a committed change (which carries none).
Files(ids) ==
  [id : ids, kind : {"WorkingDirectoryFileChange"}, selection : SUBSET LineIndices]
    \cup [id : ids, kind : {"CommittedFileChange"}, selection : {{}}]

\* EventTarget.addEventListener: a listener equal in type, callback and
\* capture to one already in the list is not added again.
addEventListener(list, listener) ==
  IF \E i \in 1 .. Len(list) : list[i].callback = listener.callback
  THEN list
  ELSE Append(list, listener)

onStartSelection(lineNumber, select) ==
  /\ state' = [state EXCEPT !.selection =
                 Some([from |-> lineNumber, to |-> lineNumber, isSelected |-> select])]
  /\ listeners' = addEventListener(listeners,
                     [callback |-> "onEndSelection", once |-> TRUE])
  /\ calls' = <<>>
  /\ gestureFile' = Some(props.file.id)
  /\ UNCHANGED <<props, inflight, rows, mounted, menuVars, cloneVars>>

\* onEndSelection, run against props p, state st and the calls made so far:
\* the state and the calls it leaves.
onEndSelection_LengthWithoutLast(p, st, made) ==
  IF ~canSelect(p.file) THEN [state |-> st, calls |-> made]
  ELSE IF st.selection = Undefined THEN [state |-> st, calls |-> made]
  ELSE IF ~p.onIncludeChanged THEN [state |-> st, calls |-> made]
  ELSE
    LET from == Min(st.selection[1].from, st.selection[1].to)
        to   == Max(st.selection[1].from, st.selection[1].to)
    IN [ state |-> [st EXCEPT !.selection = Undefined],
         calls |-> Append(made,
                     [ fn  |-> "onIncludeChanged",
                       arg |-> withRangeSelection(p.file.selection, from,
                                 to - from, st.selection[1].isSelected) ]) ]

onEndSelection(p, st, made) ==
  IF ~canSelect(p.file) THEN [state |-> st, calls |-> made]
  ELSE IF st.selection = Undefined THEN [state |-> st, calls |-> made]
  ELSE IF ~p.onIncludeChanged THEN [state |-> st, calls |-> made]
  ELSE
    LET from == Min(st.selection[1].from, st.selection[1].to)
        to   == Max(st.selection[1].from, st.selection[1].to)
    IN [ state |-> [st EXCEPT !.selection = Undefined],
         calls |-> Append(made,
                     [ fn  |-> "onIncludeChanged",
                       arg |-> withRangeSelection(p.file.selection, from,
                                 to - from + 1, st.selection[1].isSelected) ]) ]

\* The listeners left after a dispatch: a { once: true } listener is removed
\* when it is invoked.
AfterDispatch_OnceIgnored(list) == list

AfterDispatch(list) == SelectSeq(list, LAMBDA l : ~l.once)

\* Invoke the listeners list[i..] in order.
RECURSIVE InvokeListeners(_, _, _, _)
InvokeListeners(list, i, st, made) ==
  IF i > Len(list) THEN [state |-> st, calls |-> made]
  ELSE LET r == onEndSelection(props, st, made)
       IN InvokeListeners(list, i + 1, r.state, r.calls)

\* The document dispatches a 'mouseup' event (a pointer-up anywhere).
DispatchMouseUp ==
  LET r == InvokeListeners(listeners, 1, state, <<>>)
  IN /\ state' = r.state
     /\ calls' = r.calls
     /\ listeners' = AfterDispatch(listeners)
     /\ UNCHANGED <<props, inflight, rows, mounted, menuVars, gestureFile, cloneVars>>

onUpdateSelection_MovesAnchor(lineNumber) ==
  /\ state' = [state EXCEPT !.selection =
                 Some([from |-> lineNumber, to |-> lineNumber,
                       isSelected |-> IF state.selection = Undefined THEN TRUE
                                      ELSE state.selection[1].isSelected])]
  /\ calls' = <<>>
  /\ UNCHANGED <<props, listeners, inflight, rows, mounted, menuVars, gestureFile, cloneVars>>

onUpdateSelection(lineNumber) ==
  /\ IF state.selection = Undefined
     THEN state' = state
     ELSE state' = [state EXCEPT !.selection =
                      Some([state.selection[1] EXCEPT !.to = lineNumber])]
  /\ calls' = <<>>
  /\ UNCHANGED <<props, listeners, inflight, rows, mounted, menuVars, gestureFile, cloneVars>>

onMouseEnterHunk(hunkStartLine) ==
  /\ IF state.selection # Undefined
     THEN state' = state
     ELSE state' = [state EXCEPT !.hoveredHunk = Some(hunkStartLine)]
  /\ calls' = <<>>
  /\ UNCHANGED <<props, listeners, inflight, rows, mounted, menuVars, gestureFile, cloneVars>>

onMouseLeaveHunk ==
  /\ state' = [state EXCEPT !.hoveredHunk = Undefined]
  /\ calls' = <<>>
  /\ UNCHANGED <<props, listeners, inflight, rows, mounted, menuVars, gestureFile, cloneVars>>

\* --------------------------------- SideBySideDiff: hunk click and discard

\* findInteractiveDiffRange: the contiguous run of Add/Delete lines of the
\* hunk containing diff line `index`, as its first and last diff line; null
\* (Undefined) when no hunk has a changed line at `index`.
findInteractiveDiffRange(hunks, index) ==
  LET holding == {k \in DOMAIN hunks :
                    /\ hunks[k].unifiedDiffStart <= index
                    /\ index < hunks[k].unifiedDiffStart + Len(hunks[k].lines)}
  IN IF holding = {} THEN Undefined
     ELSE LET hunk == hunks[CHOOSE k \in holding : TRUE]
              At(n) == hunk.lines[n - hunk.unifiedDiffStart + 1]
              Includeable(n) == At(n).type \in {"Add", "Delete"}
              inRun == {n \in hunk.unifiedDiffStart ..
                               (hunk.unifiedDiffStart + Len(hunk.lines) - 1) :
                          \A m \in Min(n, index) .. Max(n, index) : Includeable(m)}
          IN IF ~Includeable(index) THEN Undefined
             ELSE Some([ from |-> CHOOSE n \in inRun : \A m \in inRun : n <= m,
                         to   |-> CHOOSE n \in inRun : \A m \in inRun : n >= m ])

\* The rows on screen, and the arguments their controls hand to the handlers:
\* a row side passes its diffLineNumber, a row's hunk handle its hunkStartLine.
DisplayedRows == getDiffRows(props.diff, props.file, state.selection).rows

ChangeRows ==
  {k \in 1 .. Len(DisplayedRows) : DisplayedRows[k].type \in {"Modified", "Added", "Deleted"}}

DisplayedLineNumbers ==
  UNION { IF DisplayedRows[k].type = "Modified"
          THEN {DisplayedRows[k].beforeData.diffLineNumber,
                DisplayedRows[k].afterData.diffLineNumber}
          ELSE {DisplayedRows[k].data.diffLineNumber} : k \in ChangeRows }

DisplayedHunkStartLines == {DisplayedRows[k].hunkStartLine : k \in ChangeRows}

\* onClickHunk: selects or deselects the whole run the hunk handle stands for.
onClickHunk(hunkStartLine, select) ==
  LET range == findInteractiveDiffRange(props.diff.hunks, hunkStartLine)
  IN /\ calls' =
          IF ~canSelect(props.file) THEN <<>>
          ELSE IF range = Undefined THEN <<>>
          ELSE IF ~props.onIncludeChanged THEN <<>>
          ELSE << [ fn  |-> "onIncludeChanged",
                    arg |-> withRangeSelection(props.file.selection, range[1].from,
                                               range[1].to - range[1].from + 1, select) ] >>
     /\ handled' = "onClickHunk"
     /\ UNCHANGED <<props, state, listeners, inflight, rows, mounted, menu, gestureFile, cloneVars>>

\* The menu guard dropped: the menu is shown without a registered collaborator.
onContextMenuLine_NoHandlerCheck(lineNumber) ==
  /\ menu' = IF ~canSelect(props.file) THEN menu
             ELSE Some([ label |-> "Discard line", file |-> props.file,
                         startLine |-> lineNumber, endLine |-> lineNumber ])
  /\ calls' = <<>>
  /\ handled' = "onContextMenuLine"
  /\ UNCHANGED <<props, state, listeners, inflight, rows, mounted, gestureFile, cloneVars>>

\* onContextMenuLine: shows a one-item menu; the item's action captures the
\* file and the line.
onContextMenuLine(lineNumber) ==
  /\ menu' = IF ~canSelect(props.file) THEN menu
             ELSE IF ~props.onDiscardChanges THEN menu
             ELSE Some([ label |-> "Discard line", file |-> props.file,
                         startLine |-> lineNumber, endLine |-> lineNumber ])
  /\ calls' = <<>>
  /\ handled' = "onContextMenuLine"
  /\ UNCHANGED <<props, state, listeners, inflight, rows, mounted, gestureFile, cloneVars>>

\* The range of the run is not used: the item discards the given line alone.
onContextMenuHunk_StartLineOnly(hunkStartLine) ==
  LET range == findInteractiveDiffRange(props.diff.hunks, hunkStartLine)
  IN /\ menu' = IF ~canSelect(props.file) THEN menu
                ELSE IF ~props.onDiscardChanges THEN menu
                ELSE IF range = Undefined THEN menu
                ELSE Some([ label |-> "Discard lines", file |-> props.file,
                            startLine |-> hunkStartLine, endLine |-> hunkStartLine ])
     /\ calls' = <<>>
     /\ handled' = "onContextMenuHunk"
     /\ UNCHANGED <<props, state, listeners, inflight, rows, mounted, gestureFile, cloneVars>>

\* onContextMenuHunk: shows a one-item menu; the item's action captures the
\* file and the range of the run.
onContextMenuHunk(hunkStartLine) ==
  LET range == findInteractiveDiffRange(props.diff.hunks, hunkStartLine)
  IN /\ menu' = IF ~canSelect(props.file) THEN menu
                ELSE IF ~props.onDiscardChanges THEN menu
                ELSE IF range = Undefined THEN menu
                ELSE Some([ label |-> "Discard lines", file |-> props.file,
                            startLine |-> range[1].from, endLine |-> range[1].to ])
     /\ calls' = <<>>
     /\ handled' = "onContextMenuHunk"
     /\ UNCHANGED <<props, state, listeners, inflight, rows, mounted, gestureFile, cloneVars>>

\* The range is selected on top of the file's persisted selection.
onDiscardChanges_OnPersistedSelection(p, file, startLine, endLine) ==
  IF ~p.onDiscardChanges THEN <<>>
  ELSE << [ fn  |-> "onDiscardChanges",
            arg |-> [ diff      |-> p.diff,
                      selection |-> withRangeSelection(file.selection, startLine,
                                                       endLine - startLine + 1, TRUE) ] ] >>

\* onDiscardChanges: the calls it makes under props p.
onDiscardChanges(p, file, startLine, endLine) ==
  IF ~p.onDiscardChanges THEN <<>>
  ELSE << [ fn  |-> "onDiscardChanges",
            arg |-> [ diff      |-> p.diff,
                      selection |-> withRangeSelection(withSelectNone(file.selection),
                                        startLine, endLine - startLine + 1, TRUE) ] ] >>

\* showContextualMenu: the user picks the item and its action runs.
MenuAction ==
  /\ menu # Undefined
  /\ calls' = onDiscardChanges(props, menu[1].file, menu[1].startLine, menu[1].endLine)
  /\ menu' = Undefined
  /\ handled' = "onDiscardChanges"
  /\ UNCHANGED <<props, state, listeners, inflight, rows, mounted, gestureFile, cloneVars>>

\* showContextualMenu: the user closes the menu without picking the item.
MenuClosed ==
  /\ menu # Undefined
  /\ calls' = <<>>
  /\ menu' = Undefined
  /\ handled' = "none"
  /\ UNCHANGED <<props, state, listeners, inflight, rows, mounted, gestureFile, cloneVars>>

\* ------------------------------------------- SideBySideDiff: highlighting

highlightParametersEqual_FileIdOnly(newProps, prevProps) ==
  \/ newProps = prevProps
  \/ newProps.file.id = prevProps.file.id

highlightParametersEqual(newProps, prevProps) ==
  \/ newProps = prevProps
  \/ /\ newProps.file.id = prevProps.file.id
     /\ newProps.diff.text = prevProps.diff.text

\* The tokens highlightContents yields for the file and diff of a snapshot.
Tokens(side, snapshot) ==
  Some([side |-> side, file |-> snapshot.file.id, text |-> snapshot.diff.text])

\* initDiffSyntaxMode up to its first await, called with this.props = p: the
\* invocation is suspended in getFileContents holding its snapshot of the props.
\* `superseded` records that a request issued later has already been applied.
initDiffSyntaxMode(p) ==
  Append(inflight,
         [propsSnapshot |-> p, awaiting |-> "getFileContents", superseded |-> FALSE])

RemoveAt(seq, i) == [j \in 1 .. (Len(seq) - 1) |-> IF j < i THEN seq[j] ELSE seq[j + 1]]

componentDidMount ==
  /\ ~mounted
  /\ mounted' = TRUE
  /\ Len(inflight) < MaxInflight
  /\ inflight' = initDiffSyntaxMode(props)
  /\ calls' = <<>>
  /\ UNCHANGED <<props, state, listeners, rows, menuVars, gestureFile, cloneVars>>

\* The parent re-renders the component with new props; componentDidUpdate
\* starts a highlighting pass when the highlight parameters changed.
ReceiveProps(newProps) ==
  /\ props' = newProps
  /\ IF ~highlightParametersEqual(newProps, props)
     THEN /\ Len(inflight) < MaxInflight
          /\ inflight' = initDiffSyntaxMode(newProps)
     ELSE inflight' = inflight
  /\ calls' = <<>>
  /\ UNCHANGED <<state, listeners, rows, mounted, menuVars, gestureFile, cloneVars>>

\* getFileContents resolves for the i-th invocation in flight.
getFileContentsDone(i) ==
  /\ inflight[i].awaiting = "getFileContents"
  /\ IF ~highlightParametersEqual(props, inflight[i].propsSnapshot)
     THEN inflight' = RemoveAt(inflight, i)
     ELSE inflight' = [inflight EXCEPT ![i].awaiting = "highlightContents"]
  /\ calls' = <<>>
  /\ UNCHANGED <<props, state, listeners, rows, mounted, menuVars, gestureFile, cloneVars>>

\* highlightContents resolves for the i-th invocation in flight.
highlightContentsDone(i) ==
  /\ inflight[i].awaiting = "highlightContents"
  /\ IF ~highlightParametersEqual(props, inflight[i].propsSnapshot)
     THEN /\ state' = state
          /\ inflight' = RemoveAt(inflight, i)
     ELSE /\ state' = [state EXCEPT
                         !.beforeTokens = Tokens("old", inflight[i].propsSnapshot),
                         !.afterTokens  = Tokens("new", inflight[i].propsSnapshot)]
          /\ inflight' = RemoveAt(
                           [j \in 1 .. Len(inflight) |->
                              IF j < i THEN [inflight[j] EXCEPT !.superseded = TRUE]
                              ELSE inflight[j]], i)
  /\ calls' = <<>>
  /\ UNCHANGED <<props, listeners, rows, mounted, menuVars, gestureFile, cloneVars>>

\* ------------------------------------------------- SideBySideDiff: render

\* render: the rows are built from the diff, the file and the transient
\* selection.
render ==
  /\ rows' = Some(getDiffRows(props.diff, props.file, state.selection))
  /\ calls' = <<>>
  /\ UNCHANGED <<props, state, listeners, inflight, mounted, menuVars, gestureFile, cloneVars>>

\* ----------------------------------------------------- CloneRepository

DestinationExistsErrorName == "DestinationExistsError"

\* A path string: the empty string, or an absolute or relative path given by
\* its segments ("/" and "." have none).
EmptyPath == [empty |-> TRUE, abs |-> FALSE, segs |-> <<>>]
AbsPath(segs) == [empty |-> FALSE, abs |-> TRUE, segs |-> segs]
RelPath(segs) == [empty |-> FALSE, abs |-> FALSE, segs |-> segs]

\* Path.dirname: "" and a single relative segment give ".", "/x" gives "/".
PathDirname(p) ==
  IF p.empty THEN RelPath(<<>>)
  ELSE IF Len(p.segs) = 0 THEN p
  ELSE [p EXCEPT !.segs = SubSeq(p.segs, 1, Len(p.segs) - 1)]

\* Path.join(p, name) for a name of one segment: "" and "." contribute nothing.
PathJoin(p, name) ==
  IF p.empty THEN RelPath(<<name>>)
  ELSE [p EXCEPT !.segs = Append(p.segs, name)]

\* The URL texts a user enters, and parseOwnerAndName on each: only the
\* owner/name shortcut parses to an identifier.
URLs == {"", "x", "o/a"}

parseOwnerAndName(url) ==
  IF url = "o/a" THEN Some([owner |-> "o", name |-> "a"]) ELSE Undefined

\* The destination texts a user types, the directories the picker returns and
\* the directories other programs create or delete while the dialog is open.
TypedPaths == {EmptyPath, AbsPath(<<"d">>)}
PickedDirectories == {AbsPath(<<"d">>), AbsPath(<<"e">>)}
VolatileDirectories == {AbsPath(<<"d">>), AbsPath(<<"d", "a">>)}

\* getDefaultDir()
DefaultDir == AbsPath(<<"d">>)

\* The constructor.
InitialCloneState ==
  [ url |-> "", path |-> DefaultDir, loading |-> FALSE, error |-> Undefined,
    lastParsedIdentifier |-> Undefined ]

\* render: the Clone button's disabled flag.
disabled(st) ==
  \/ st.url = ""
  \/ st.path.empty
  \/ st.loading
  \/ (st.error # Undefined /\ st.error[1].name = DestinationExistsErrorName)

\* checkPathValid up to the FS.exists call: a probe of newPath is pending. The
\* probe reads the disk at some moment before its callback runs (`exists` is
\* Undefined until then). `superseded` records that the callback of a probe
\* issued later has already been applied.
checkPathValid(newPath) ==
  Append(checks, [newPath |-> newPath, exists |-> Undefined, superseded |-> FALSE])

showFilePicker(directory) ==
  /\ IF directory = Undefined
     THEN cstate' = cstate /\ chosenPath' = chosenPath
     ELSE cstate' = [cstate EXCEPT !.path = directory[1]] /\ chosenPath' = directory[1]
  /\ UNCHANGED <<checks, fs, submitVars, diffVars>>

onURLChanged(input) ==
  LET url == input
      parsed == parseOwnerAndName(url)
      lastParsedIdentifier == cstate.lastParsedIdentifier
      newPath ==
        IF lastParsedIdentifier # Undefined
        THEN IF parsed # Undefined
             THEN PathJoin(PathDirname(cstate.path), parsed[1].name)
             ELSE PathDirname(cstate.path)
        ELSE IF parsed # Undefined
             THEN PathJoin(cstate.path, parsed[1].name)
             ELSE cstate.path
  IN /\ Len(checks) < MaxChecks
     /\ cstate' = [cstate EXCEPT !.url = url, !.path = newPath,
                                 !.lastParsedIdentifier = parsed]
     /\ checks' = checkPathValid(newPath)
     /\ UNCHANGED <<fs, submitVars, chosenPath, diffVars>>

onPathChanged(path) ==
  /\ Len(checks) < MaxChecks
  /\ cstate' = [cstate EXCEPT !.path = path]
  /\ checks' = checkPathValid(path)
  /\ chosenPath' = path
  /\ UNCHANGED <<fs, submitVars, diffVars>>

\* The i-th pending probe reads the disk.
ExistsProbe(i) ==
  /\ checks[i].exists = Undefined
  /\ checks' = [checks EXCEPT ![i].exists = Some(checks[i].newPath \in fs)]
  /\ UNCHANGED <<cstate, fs, submitVars, chosenPath, diffVars>>

\* The callback checkPathValid passed to FS.exists runs for the i-th probe.
ExistsCallback(i) ==
  /\ checks[i].exists # Undefined
  /\ IF cstate.path # checks[i].newPath
     THEN /\ cstate' = cstate
          /\ checks' = RemoveAt(checks, i)
     ELSE /\ cstate' = [cstate EXCEPT !.error =
                          IF checks[i].exists[1]
                          THEN Some([ name |-> DestinationExistsErrorName,
                                      message |-> "The destination already exists." ])
                          ELSE Undefined]
          /\ checks' = RemoveAt(
                         [j \in 1 .. Len(checks) |->
                            IF j < i THEN [checks[j] EXCEPT !.superseded = TRUE]
                            ELSE checks[j]], i)
  /\ UNCHANGED <<fs, submitVars, chosenPath, diffVars>>

\* Another program creates or deletes a directory.
DiskChange(dir) ==
  /\ fs' = IF dir \in fs THEN fs \ {dir} ELSE fs \cup {dir}
  /\ UNCHANGED <<cstate, checks, submitVars, chosenPath, diffVars>>

\* ------------------------------------------- CloneRepository: submission

\* The working directory Path.resolve resolves a relative path against.
Cwd == AbsPath(<<"w">>)

\* Path.resolve(path, '..'): the parent of the path made absolute; the root
\* is its own parent.
PathResolveParent(path) ==
  LET full == IF path.abs THEN path.segs ELSE Cwd.segs \o path.segs
  IN AbsPath(IF Len(full) = 0 THEN <<>> ELSE SubSeq(full, 1, Len(full) - 1))

\* What findAccountForRemote and api.fetchRepository may come back with.
AccountOutcomes == {"account", "none", "throws"}
RepositoryOutcomes == {"repository", "none", "throws"}

\* repo.cloneUrl of the repository the identifier names.
CloneUrl == "https://h/o/a.git"

\* The error a rejected api.fetchRepository carries.
FetchError == [name |-> "Error", message |-> "fetch failed"]

\* The Cancel button: props.onDismissed.
Cancel ==
  /\ ccalls' = Append(ccalls, [fn |-> "onDismissed", args |-> <<>>])
  /\ dismissed' = TRUE
  /\ UNCHANGED <<cstate, checks, fs, submission, defaultDir, chosenPath, diffVars>>

\* clone, to the first await of resolveCloneDetails: loading is set, and the
\* path, the URL and the parsed identifier are read from the state.
clone ==
  /\ cstate' = [cstate EXCEPT !.loading = TRUE]
  /\ submission' = Some([ path       |-> cstate.path,
                          url        |-> cstate.url,
                          identifier |-> cstate.lastParsedIdentifier,
                          awaiting   |-> "findAccountForRemote",
                          account    |-> Undefined ])
  /\ UNCHANGED <<checks, fs, ccalls, dismissed, defaultDir, chosenPath, diffVars>>

\* cloneImpl: the calls it makes, in order.
cloneImpl(url, path, account) ==
  << [fn |-> "clone", args |-> <<url, path, account>>],
     [fn |-> "onDismissed", args |-> <<>>],
     [fn |-> "setDefaultDir", args |-> <<PathResolveParent(path)>>] >>

\* clone, from the return of resolveCloneDetails on.
Resolved(url, account) ==
  /\ ccalls' = ccalls \o cloneImpl(url, submission[1].path, account)
  /\ dismissed' = TRUE
  /\ defaultDir' = PathResolveParent(submission[1].path)
  /\ submission' = Undefined
  /\ UNCHANGED <<cstate, checks, fs, chosenPath, diffVars>>

\* The catch block stops short of clearing the loading flag.
cloneFailed_StillLoading(st, error) == [st EXCEPT !.error = Some(error)]

\* clone, the catch block: the state it sets.
cloneFailed(st, error) == [st EXCEPT !.loading = FALSE, !.error = Some(error)]

\* A throw of findAccountForRemote leaves resolveCloneDetails and reaches the
\* catch block of clone.
AccountResolved_ThrowBubblesUp(outcome) ==
  /\ submission # Undefined
  /\ submission[1].awaiting = "findAccountForRemote"
  /\ LET account == IF outcome = "account" THEN Some("account") ELSE Undefined
     IN IF outcome = "throws"
        THEN /\ cstate' = cloneFailed(cstate, FetchError)
             /\ submission' = Undefined
             /\ UNCHANGED <<checks, fs, ccalls, dismissed, defaultDir, chosenPath, diffVars>>
        ELSE IF submission[1].identifier # Undefined
        THEN /\ submission' = Some([submission[1] EXCEPT
                                      !.awaiting = "fetchRepository",
                                      !.account = account])
             /\ UNCHANGED <<cstate, checks, fs, ccalls, dismissed, defaultDir, chosenPath, diffVars>>
        ELSE Resolved(submission[1].url, account)

\* resolveCloneDetails resumes after findAccountForRemote: a throw is caught
\* and leaves no account; with an identifier the repository is fetched next,
\* without one the details are returned.
AccountResolved(outcome) ==
  /\ submission # Undefined
  /\ submission[1].awaiting = "findAccountForRemote"
  /\ LET account == IF outcome = "account" THEN Some("account") ELSE Undefined
     IN IF submission[1].identifier # Undefined
        THEN /\ submission' = Some([submission[1] EXCEPT
                                      !.awaiting = "fetchRepository",
                                      !.account = account])
             /\ UNCHANGED <<cstate, checks, fs, ccalls, dismissed, defaultDir, chosenPath, diffVars>>
        ELSE Resolved(submission[1].url, account)

\* resolveCloneDetails resumes after api.fetchRepository: a repository gives
\* its clone URL, none leaves the URL as entered, a throw reaches the catch
\* block of clone.
RepositoryFetched(outcome) ==
  /\ submission # Undefined
  /\ submission[1].awaiting = "fetchRepository"
  /\ IF outcome = "throws"
     THEN /\ cstate' = cloneFailed(cstate, FetchError)
          /\ submission' = Undefined
          /\ UNCHANGED <<checks, fs, ccalls, dismissed, defaultDir, chosenPath, diffVars>>
     ELSE Resolved(IF outcome = "repository" THEN CloneUrl ELSE submission[1].url,
                   submission[1].account)

\* ------------------------------------------------------- specifications

FileIds == {"a.ts", "b.ts"}

\* The diff the selection tracker is exercised on: a header and one run.
TrackedDiffText ==
  [i \in 1 .. MaxLines |->
     IF i = 1 THEN "Hunk" ELSE IF i % 2 = 0 THEN "Delete" ELSE "Add"]

\* The diff texts the displayed file alternates between.
DisplayedDiffTexts == { <<"Hunk", "Add">>, <<"Hunk", "Delete">> }

CloneInit ==
  /\ cstate = InitialCloneState
  /\ checks = <<>>
  /\ submission = Undefined
  /\ ccalls = <<>>
  /\ dismissed = FALSE
  /\ defaultDir = DefaultDir
  /\ chosenPath = DefaultDir
  /\ fs \in SUBSET VolatileDirectories

CloneIdle ==
  /\ cstate = InitialCloneState
  /\ checks = <<>>
  /\ submission = Undefined
  /\ ccalls = <<>>
  /\ dismissed = FALSE
  /\ defaultDir = DefaultDir
  /\ chosenPath = DefaultDir
  /\ fs = {}

\* The component as its constructor leaves it, not yet mounted.
DiffInit(initialProps) ==
  /\ props \in initialProps
  /\ state = InitialState
  /\ listeners = <<>>
  /\ calls = <<>>
  /\ inflight = <<>>
  /\ rows = Undefined
  /\ menu = Undefined
  /\ handled = "none"
  /\ gestureFile = Undefined
  /\ mounted = FALSE

\* The selection tracker: pointer and hover events on a component that is
\* mounted and has finished its first highlighting pass, and whose parent
\* re-renders it with the same file and diff (a new persisted selection, a
\* handler registered or removed), so that no further pass starts. The
\* handlers of Next and the highlighting chain write disjoint parts of the
\* state; TokSpec follows the chain from the constructor on.
TrackerProps ==
  [ file : Files({"a.ts"}),
    diff : {TextDiff(TrackedDiffText)},
    onIncludeChanged : BOOLEAN,
    onDiscardChanges : {TRUE} ]

Init ==
  /\ props \in TrackerProps
  /\ state = [InitialState EXCEPT !.beforeTokens = Tokens("old", props),
                                  !.afterTokens  = Tokens("new", props)]
  /\ listeners = <<>>
  /\ calls = <<>>
  /\ inflight = <<>>
  /\ rows = Undefined
  /\ menu = Undefined
  /\ handled = "none"
  /\ gestureFile = Undefined
  /\ mounted = TRUE
  /\ CloneIdle

Next ==
  \/ \E p \in TrackerProps : ReceiveProps(p)
  \/ \E n \in LineIndices, select \in BOOLEAN : onStartSelection(n, select)
  \/ \E n \in LineIndices : onUpdateSelection(n)
  \/ DispatchMouseUp
  \/ \E n \in LineIndices : onMouseEnterHunk(n)
  \/ onMouseLeaveHunk

Spec == Init /\ [][Next]_vars

\* The highlighting chain: the parent switches the displayed file and diff
\* while highlighting passes are in flight.
DisplayedProps ==
  [ file : [id : FileIds, kind : {"WorkingDirectoryFileChange"}, selection : {{}}],
    diff : {TextDiff(t) : t \in DisplayedDiffTexts},
    onIncludeChanged : {TRUE},
    onDiscardChanges : {TRUE} ]

InitialDisplay ==
  [ file |-> [id |-> "a.ts", kind |-> "WorkingDirectoryFileChange", selection |-> {}],
    diff |-> TextDiff(<<"Hunk", "Add">>),
    onIncludeChanged |-> TRUE,
    onDiscardChanges |-> TRUE ]

TokInit == DiffInit({InitialDisplay}) /\ CloneIdle

TokNext ==
  \/ componentDidMount
  \/ \E p \in DisplayedProps : mounted /\ ReceiveProps(p)
  \/ \E i \in 1 .. Len(inflight) : getFileContentsDone(i)
  \/ \E i \in 1 .. Len(inflight) : highlightContentsDone(i)

TokSpec == TokInit /\ [][TokNext]_vars

\* The row builder as a pure function: every diff text, file and transient
\* selection within the bounds, rendered once.
TemporarySelections ==
  {Undefined} \cup
  {Some(s) : s \in [from : LineIndices, to : LineIndices, isSelected : BOOLEAN]}

RowInit ==
  /\ props \in [ file : Files({"a.ts"}),
                 diff : {TextDiff(t) : t \in DiffTexts},
                 onIncludeChanged : {TRUE},
                 onDiscardChanges : {TRUE} ]
  /\ state \in {[InitialState EXCEPT !.selection = s] : s \in TemporarySelections}
  /\ listeners = <<>>
  /\ calls = <<>>
  /\ inflight = <<>>
  /\ rows = Undefined
  /\ menu = Undefined
  /\ handled = "none"
  /\ gestureFile = Undefined
  /\ mounted = TRUE
  /\ CloneIdle

RowNext == render

RowSpec == RowInit /\ [][RowNext]_vars

\* The row builder on longer diffs and on parse results it asserts against.
\* A parsed line always has the numbers of its type; Damaged is the parse
\* result with one line lacking a number or carrying a type outside the
\* DiffLineType enumeration.
RunTexts ==
  UNION { {t \in [1 .. n -> DiffLineTypes] : t[1] = "Hunk"} : n \in 1 .. MaxRunLines }

Damages == {"none", "oldLineNumber", "newLineNumber", "type"}

DamagedLine(line, damage) ==
  CASE damage = "oldLineNumber" -> [line EXCEPT !.oldLineNumber = Undefined]
    [] damage = "newLineNumber" -> [line EXCEPT !.newLineNumber = Undefined]
    [] damage = "type"          -> [line EXCEPT !.type = "Unknown"]
    [] OTHER                    -> line

\* diff with the line at diff-relative index `index` damaged.
Damaged(diff, index, damage) ==
  [diff EXCEPT !.hunks =
     [k \in DOMAIN diff.hunks |->
        [diff.hunks[k] EXCEPT !.lines =
           [i \in DOMAIN diff.hunks[k].lines |->
              IF diff.hunks[k].unifiedDiffStart + (i - 1) = index
              THEN DamagedLine(diff.hunks[k].lines[i], damage)
              ELSE diff.hunks[k].lines[i]]]]]

BuilderInit ==
  /\ props \in [ file : [id : {"a.ts"},
                         kind : {"WorkingDirectoryFileChange", "CommittedFileChange"},
                         selection : {{}}],
                 diff : {Damaged(TextDiff(t), index, damage) :
                           t \in RunTexts, index \in 0 .. (MaxRunLines - 1),
                           damage \in Damages},
                 onIncludeChanged : {TRUE},
                 onDiscardChanges : {TRUE} ]
  /\ state = InitialState
  /\ listeners = <<>>
  /\ calls = <<>>
  /\ inflight = <<>>
  /\ rows = Undefined
  /\ menu = Undefined
  /\ handled = "none"
  /\ gestureFile = Undefined
  /\ mounted = TRUE
  /\ CloneIdle

BuilderNext == render

BuilderSpec == BuilderInit /\ [][BuilderNext]_vars

\* The hunk click and the discard menus: the parent displays any diff text
\* and file within the bounds and re-renders the component with a handler
\* registered or removed; a contextual menu takes the pointer until it is
\* closed.
MenuProps ==
  [ file : Files({"a.ts"}),
    diff : {TextDiff(t) : t \in DiffTexts},
    onIncludeChanged : BOOLEAN,
    onDiscardChanges : BOOLEAN ]

MenuInit ==
  /\ props \in MenuProps
  /\ state = [InitialState EXCEPT !.beforeTokens = Tokens("old", props),
                                  !.afterTokens  = Tokens("new", props)]
  /\ listeners = <<>>
  /\ calls = <<>>
  /\ inflight = <<>>
  /\ rows = Undefined
  /\ menu = Undefined
  /\ handled = "none"
  /\ gestureFile = Undefined
  /\ mounted = TRUE
  /\ CloneIdle

MenuNext ==
  \/ \E include, discard \in BOOLEAN :
        ReceiveProps([props EXCEPT !.onIncludeChanged = include,
                                   !.onDiscardChanges = discard])
  \/ \E h \in DisplayedHunkStartLines, select \in BOOLEAN :
        menu = Undefined /\ onClickHunk(h, select)
  \/ \E n \in DisplayedLineNumbers : menu = Undefined /\ onContextMenuLine(n)
  \/ \E h \in DisplayedHunkStartLines : menu = Undefined /\ onContextMenuHunk(h)
  \/ MenuAction
  \/ MenuClosed

MenuSpec == MenuInit /\ [][MenuNext]_vars

\* A drag while the parent replaces the displayed file: two selectable files
\* with the same diff text and different persisted selections, the
\* collaborator registered. A change of file starts a highlighting pass,
\* which stays pending for as long as the drag is followed here.
DragProps ==
  [ file : [ id : FileIds, kind : {"WorkingDirectoryFileChange"},
             selection : {{}, {MaxLines - 1}} ],
    diff : {TextDiff(TrackedDiffText)},
    onIncludeChanged : {TRUE},
    onDiscardChanges : {TRUE} ]

DragInit ==
  /\ props \in DragProps
  /\ state = [InitialState EXCEPT !.beforeTokens = Tokens("old", props),
                                  !.afterTokens  = Tokens("new", props)]
  /\ listeners = <<>>
  /\ calls = <<>>
  /\ inflight = <<>>
  /\ rows = Undefined
  /\ menu = Undefined
  /\ handled = "none"
  /\ gestureFile = Undefined
  /\ mounted = TRUE
  /\ CloneIdle

DragNext ==
  \/ \E p \in DragProps : ReceiveProps(p)
  \/ \E n \in LineIndices, select \in BOOLEAN : onStartSelection(n, select)
  \/ \E n \in LineIndices : onUpdateSelection(n)
  \/ DispatchMouseUp

DragSpec == DragInit /\ [][DragNext]_vars

\* The clone dialog: URL and destination edits, the directory picker, the
\* pending destination-exists probes and the disk changing underneath.
CloneDialogInit == DiffInit({InitialDisplay}) /\ CloneInit

CloneNext ==
  \/ \E input \in URLs : input # cstate.url /\ onURLChanged(input)
  \/ \E path \in TypedPaths : path # cstate.path /\ onPathChanged(path)
  \/ \E directory \in {Undefined} \cup {Some(d) : d \in PickedDirectories} :
        showFilePicker(directory)
  \/ \E i \in 1 .. Len(checks) : ExistsProbe(i)
  \/ \E i \in 1 .. Len(checks) : ExistsCallback(i)
  \/ \E dir \in VolatileDirectories : DiskChange(dir)

CloneSpec == CloneDialogInit /\ [][CloneNext]_vars

\* The clone dialog being submitted: the form stays editable and the dialog
\* can be cancelled while a submission is resolving; the Clone button submits
\* unless it is disabled; once the dialog is dismissed no further user event
\* reaches it, but a submission that is resolving runs on. The user makes an
\* edit once the destination check of the edit before has come back.
SubmitNext ==
  \/ \E input \in URLs :
        ~dismissed /\ checks = <<>> /\ input # cstate.url /\ onURLChanged(input)
  \/ \E path \in TypedPaths :
        ~dismissed /\ checks = <<>> /\ path # cstate.path /\ onPathChanged(path)
  \/ \E i \in 1 .. Len(checks) : ~dismissed /\ ExistsProbe(i)
  \/ \E i \in 1 .. Len(checks) : ~dismissed /\ ExistsCallback(i)
  \/ ~dismissed /\ ~disabled(cstate) /\ clone
  \/ ~dismissed /\ Cancel
  \/ \E outcome \in AccountOutcomes : AccountResolved(outcome)
  \/ \E outcome \in RepositoryOutcomes : RepositoryFetched(outcome)

SubmitSpec == CloneDialogInit /\ [][SubmitNext]_vars

\* --------------------------------------------------------------- claims

\* The data a row carries for its changed lines.
RowData(row) ==
  IF row.type = "Modified" THEN {row.beforeData, row.afterData}
  ELSE IF row.type \in {"Added", "Deleted"} THEN {row.data}
  ELSE {}

\* The lines between the two ends of the transient selection s, inclusive.
TransientRange(s) == {n \in LineIndices : Min(s.from, s.to) <= n /\ n <= Max(s.from, s.to)}

\* C1: for a selectable file, the isSelected flag of every row side equals
\* the persisted flag of its line when there is no transient selection, the
\* persisted flag OR membership of the transient range under a select intent,
\* and the persisted flag AND NOT membership under a deselect intent.
C1_DisplayedSelection ==
  (rows # Undefined /\ ~rows[1].fatal /\ canSelect(props.file)) =>
    \A k \in 1 .. Len(rows[1].rows) :
      \A d \in RowData(rows[1].rows[k]) :
        LET n == d.diffLineNumber
            persisted == n \in props.file.selection
        IN d.isSelected =
             IF state.selection = Undefined THEN persisted
             ELSE IF state.selection[1].isSelected
                  THEN persisted \/ n \in TransientRange(state.selection[1])
                  ELSE persisted /\ n \notin TransientRange(state.selection[1])

\* A deselect drag made upwards over a persisted-selected changed line, rendered.
C1_Witness ==
  /\ rows # Undefined /\ ~rows[1].fatal /\ canSelect(props.file)
  /\ state.selection # Undefined
  /\ ~state.selection[1].isSelected
  /\ state.selection[1].from > state.selection[1].to
  /\ \E k \in 1 .. Len(rows[1].rows) :
       \E d \in RowData(rows[1].rows[k]) :
          /\ d.diffLineNumber \in TransientRange(state.selection[1])
          /\ d.diffLineNumber \in props.file.selection
          /\ ~d.isSelected

IsStart == \E n \in LineIndices, select \in BOOLEAN : onStartSelection(n, select)

\* The pointer is released during a gesture on a selectable file.
ReleaseDuringGesture ==
  /\ DispatchMouseUp
  /\ Len(listeners) > 0
  /\ state.selection # Undefined
  /\ canSelect(props.file)

\* S with every line between a and c (inclusive, in either order) set to i.
WithLinesSet(S, a, c, i) ==
  {n \in LineIndices : IF Min(a, c) <= n /\ n <= Max(a, c) THEN i ELSE n \in S}

\* C2: releasing the pointer with a collaborator registered hands it exactly
\* the persisted selection with the lines between anchor and current end set
\* to the intent, the other lines as persisted; the two ends may be swapped.
C2_Reconciliation ==
  [][ (ReleaseDuringGesture /\ props.onIncludeChanged) =>
        LET s == state.selection[1]
        IN /\ calls' = << [ fn  |-> "onIncludeChanged",
                            arg |-> WithLinesSet(props.file.selection, s.from, s.to,
                                                 s.isSelected) ] >>
           /\ calls'[1].arg = WithLinesSet(props.file.selection, s.to, s.from,
                                           s.isSelected)
    ]_vars

\* A release has handed the collaborator a selection that differs from the
\* persisted one.
C2_Witness ==
  /\ Len(calls) = 1
  /\ calls[1].fn = "onIncludeChanged"
  /\ calls[1].arg # props.file.selection
  /\ state.selection = Undefined

\* C3: a release with no onIncludeChanged registered discards the transient
\* selection and leaves the persisted selection alone.
C3_ReadOnlyReleaseDiscards ==
  [][ (ReleaseDuringGesture /\ ~props.onIncludeChanged) =>
        /\ state'.selection = Undefined
        /\ listeners' = <<>>
        /\ props' = props
        /\ calls' = <<>>
    ]_vars

IncludeCalls(made) == Len(SelectSeq(made, LAMBDA c : c.fn = "onIncludeChanged"))

\* C4: the pointer-up listener is live exactly from a start to the next
\* pointer-up (one listener however many starts); a pointer-up makes one
\* onIncludeChanged call when the listener is live on a selectable file with
\* the collaborator registered and none otherwise; no other event makes one.
C4_OneReconciliationPerGesture ==
  [][ /\ (Len(listeners) > 0 => state.selection # Undefined)
      /\ (IsStart => Len(listeners') = 1)
      /\ (Len(listeners') # Len(listeners) => (IsStart \/ DispatchMouseUp))
      /\ (DispatchMouseUp =>
            /\ listeners' = <<>>
            /\ IncludeCalls(calls') =
                 IF Len(listeners) > 0 /\ canSelect(props.file) /\ props.onIncludeChanged
                 THEN 1 ELSE 0)
      /\ (~DispatchMouseUp => IncludeCalls(calls') = 0)
    ]_vars

\* A gesture has ended with its one call and the listener is gone.
C4_Witness ==
  /\ IncludeCalls(calls) = 1
  /\ listeners = <<>>
  /\ state.selection = Undefined

\* A highlighting pass that a later-issued, already applied pass superseded
\* does not set the tokens in this step.
HighlightOrdered ==
  \A i \in 1 .. Len(inflight) :
    ( /\ highlightContentsDone(i)
      /\ highlightParametersEqual(props, inflight[i].propsSnapshot) )
    => ~inflight[i].superseded

\* A destination probe that a later-issued, already applied probe superseded
\* does not set the error in this step.
ExistsOrdered ==
  \A i \in 1 .. Len(checks) :
    (ExistsCallback(i) /\ cstate.path = checks[i].newPath)
    => ~checks[i].superseded

\* C5: in both asynchronous chains the result of a superseded request is
\* never applied over the result of a newer one.
C5_NoSupersededResultApplied == [][HighlightOrdered /\ ExistsOrdered]_vars

\* C5, restricted to the highlighting chain (for TokSpec).
C5_HighlightOrdering == [][HighlightOrdered]_vars

\* The displayed file or diff text differs from the one of the snapshot.
DisplayChanged(p, snapshot) ==
  p.file.id # snapshot.file.id \/ p.diff.text # snapshot.diff.text

\* C6: a pass whose snapshot differs from the displayed file or diff text
\* when one of its two asynchronous steps completes ends there and leaves
\* the tokens as they were; the tokens only ever change to the result of a
\* pass whose snapshot matches the display.
C6_StaleResultDiscarded ==
  [][ /\ \A i \in 1 .. Len(inflight) :
           ( /\ getFileContentsDone(i) \/ highlightContentsDone(i)
             /\ DisplayChanged(props, inflight[i].propsSnapshot) )
           => /\ state' = state
              /\ inflight' = RemoveAt(inflight, i)
      /\ (state' # state =>
            \E i \in 1 .. Len(inflight) :
               /\ inflight[i].awaiting = "highlightContents"
               /\ ~DisplayChanged(props, inflight[i].propsSnapshot)
               /\ state'.beforeTokens = Tokens("old", inflight[i].propsSnapshot)
               /\ state'.afterTokens = Tokens("new", inflight[i].propsSnapshot))
    ]_vars

\* The pass started at mount is gone without its tokens having been set, and
\* another file or diff is displayed: it was discarded as stale.
C6_Witness ==
  /\ mounted
  /\ state.beforeTokens = Undefined
  /\ state.afterTokens = Undefined
  /\ DisplayChanged(props, InitialDisplay)
  /\ \A i \in 1 .. Len(inflight) :
        DisplayChanged(inflight[i].propsSnapshot, InitialDisplay)

DestinationExistsShown(st) ==
  st.error # Undefined /\ st.error[1].name = DestinationExistsErrorName

\* C7: submission is disabled while the destination-exists error is shown;
\* every change of the destination path starts a probe of the new path; and
\* the callback of a probe of the current path that found nothing clears the
\* error.
C7_PathChangeRechecks ==
  [][ /\ (DestinationExistsShown(cstate) => disabled(cstate))
      /\ (cstate'.path # cstate.path =>
            /\ Len(checks') = Len(checks) + 1
            /\ checks'[Len(checks')].newPath = cstate'.path)
      /\ \A i \in 1 .. Len(checks) :
           ( /\ ExistsCallback(i)
             /\ cstate.path = checks[i].newPath
             /\ checks[i].exists = Some(FALSE) )
           => ~DestinationExistsShown(cstate')
    ]_vars

\* C8: starting a drag gesture clears the hover indicator.
C8_StartClearsHover ==
  [][ IsStart => state'.hoveredHunk = Undefined ]_vars

\* C9: while a transient selection exists neither mouse-enter-hunk nor
\* mouse-leave-hunk changes the hover indicator; while idle mouse-enter-hunk
\* sets it to the hunk's start line.
C9_HoverSuppressedWhileDragging ==
  [][ /\ ( /\ state.selection # Undefined
           /\ (onMouseLeaveHunk \/ \E n \in LineIndices : onMouseEnterHunk(n)) )
         => state'.hoveredHunk = state.hoveredHunk
      /\ \A n \in LineIndices :
           (state.selection = Undefined /\ onMouseEnterHunk(n))
           => state'.hoveredHunk = Some(n)
    ]_vars

\* C10: a pointer-move while dragging changes only the current end of the
\* transient selection; a pointer-move while idle changes nothing.
C10_UpdateMovesOnlyCurrentEnd ==
  [][ \A n \in LineIndices :
        onUpdateSelection(n) =>
          /\ props' = props
          /\ listeners' = listeners
          /\ IF state.selection = Undefined
             THEN state' = state
             ELSE state' = [state EXCEPT !.selection =
                              Some([ from |-> state.selection[1].from,
                                     to |-> n,
                                     isSelected |-> state.selection[1].isSelected ])]
    ]_vars

\* A drag whose current end has moved away from its anchor.
C10_Witness ==
  /\ state.selection # Undefined
  /\ state.selection[1].from # state.selection[1].to
  /\ Len(listeners) = 1

\* ------------------------------------------------- claims on the row builder

\* The lines of the rendered diff by 1-based position, as parsed.
ParsedLines ==
  [ i \in 1 .. Len(props.diff.text) |->
      LET k == CHOOSE k \in DOMAIN props.diff.hunks :
                 /\ props.diff.hunks[k].unifiedDiffStart < i
                 /\ i <= props.diff.hunks[k].unifiedDiffStart + Len(props.diff.hunks[k].lines)
      IN props.diff.hunks[k].lines[i - props.diff.hunks[k].unifiedDiffStart] ]

\* Every parsed line has a type of the enumeration and the numbers of its type.
WellFormed ==
  \A i \in DOMAIN ParsedLines :
    LET line == ParsedLines[i]
    IN /\ line.type \in DiffLineTypes
       /\ line.type \in {"Context", "Delete"} => line.oldLineNumber # Undefined
       /\ line.type \in {"Context", "Add"} => line.newLineNumber # Undefined

\* The 1-based positions of the changed lines, and the rows the last render
\* returned.
ChangedPositions == {i \in DOMAIN ParsedLines : ParsedLines[i].type \in {"Add", "Delete"}}
Rendered == rows # Undefined /\ ~rows[1].fatal
RowsOfType(t) == {k \in 1 .. Len(rows[1].rows) : rows[1].rows[k].type = t}

\* The row sides (row index, side) whose diffLineNumber is n.
SidesShowing(n) ==
  { ks \in (1 .. Len(rows[1].rows)) \X {"before", "after", "data"} :
      LET row == rows[1].rows[ks[1]]
      IN CASE row.type = "Modified" /\ ks[2] = "before" -> row.beforeData.diffLineNumber = n
           [] row.type = "Modified" /\ ks[2] = "after"  -> row.afterData.diffLineNumber = n
           [] row.type \in {"Added", "Deleted"} /\ ks[2] = "data" -> row.data.diffLineNumber = n
           [] OTHER -> FALSE }

\* C11: the rows built from a diff neither drop nor duplicate a changed line:
\* #Added + #Deleted + 2 * #Modified is the number of Add/Delete lines of the
\* diff, and the diff-relative index of each such line is the diffLineNumber
\* of exactly one row side.
C11_NoChangedLineLostOrDuplicated ==
  (rows # Undefined /\ WellFormed) =>
    /\ ~rows[1].fatal
    /\ Cardinality(RowsOfType("Added")) + Cardinality(RowsOfType("Deleted"))
         + 2 * Cardinality(RowsOfType("Modified")) = Cardinality(ChangedPositions)
    /\ \A i \in ChangedPositions : Cardinality(SidesShowing(i - 1)) = 1

\* A rendered diff whose run has more lines on one side than on the other:
\* a Modified row and an unpaired row side by side.
C11_Witness ==
  /\ Rendered
  /\ RowsOfType("Modified") # {}
  /\ RowsOfType("Added") \cup RowsOfType("Deleted") # {}
  /\ Cardinality(ChangedPositions) > 2

\* The contiguous run of changed lines around position i: the positions joined
\* to i by changed lines only.
RunAround(i) ==
  { j \in ChangedPositions :
      \A m \in Min(i, j) .. Max(i, j) : m \in ChangedPositions }

LinesOfType(positions, t) == {j \in positions : ParsedLines[j].type = t}

\* C12: a Modified row asks for intra-line token highlighting exactly when the
\* run it belongs to has as many added as deleted lines: every Modified row of
\* an equal-count run has displayDiffTokens true, every Modified row of an
\* unequal-count run has it false.
C12_DiffTokensIffEqualCounts ==
  Rendered =>
    \A k \in RowsOfType("Modified") :
      LET row == rows[1].rows[k]
          run == RunAround(row.beforeData.diffLineNumber + 1)
      IN row.displayDiffTokens =
           (Cardinality(LinesOfType(run, "Add")) = Cardinality(LinesOfType(run, "Delete")))

\* A rendered run with more lines on one side: its Modified row has the
\* token highlighting turned off.
C12_Witness ==
  /\ Rendered
  /\ \E k \in RowsOfType("Modified") :
       /\ ~rows[1].rows[k].displayDiffTokens
       /\ Cardinality(RunAround(rows[1].rows[k].beforeData.diffLineNumber + 1)) > 2

ContextPositions == {i \in DOMAIN ParsedLines : ParsedLines[i].type = "Context"}

\* A Context line lacking its old or its new number.
ContextLineLacksNumber ==
  \E i \in ContextPositions :
    ParsedLines[i].oldLineNumber = Undefined \/ ParsedLines[i].newLineNumber = Undefined

\* A line whose type is none of Context, Add, Delete and Hunk.
LineOfUnknownType == \E i \in DOMAIN ParsedLines : ParsedLines[i].type \notin DiffLineTypes

\* The position of the n-th member of a set of positions.
NthOf(positions, n) ==
  CHOOSE i \in positions : Cardinality({j \in positions : j <= i}) = n

\* C13: a diff with a Context line lacking its old or new number, or with a
\* line of a type outside the enumeration, makes the row builder fail fatally
\* and return no rows; otherwise, when rows are returned, the Context lines
\* and the Context rows correspond in order, each row carrying the old number
\* as beforeLineNumber and the new number as afterLineNumber.
C13_ContextRowsOrFatal ==
  rows # Undefined =>
    /\ (ContextLineLacksNumber \/ LineOfUnknownType) =>
         (rows[1].fatal /\ rows[1].rows = <<>>)
    /\ ~rows[1].fatal =>
         /\ Cardinality(RowsOfType("Context")) = Cardinality(ContextPositions)
         /\ \A n \in 1 .. Cardinality(ContextPositions) :
              LET row  == rows[1].rows[NthOf(RowsOfType("Context"), n)]
                  line == ParsedLines[NthOf(ContextPositions, n)]
              IN /\ Some(row.beforeLineNumber) = line.oldLineNumber
                 /\ Some(row.afterLineNumber) = line.newLineNumber

\* The builder has failed on a diff whose only defect is a Context line
\* without its new number, after a well-formed Context line.
C13_Witness ==
  /\ rows # Undefined /\ rows[1].fatal
  /\ ~LineOfUnknownType
  /\ \E i, j \in ContextPositions :
       /\ i < j
       /\ ParsedLines[i].oldLineNumber # Undefined /\ ParsedLines[i].newLineNumber # Undefined
       /\ ParsedLines[j].oldLineNumber # Undefined /\ ParsedLines[j].newLineNumber = Undefined

\* What a row shows: its type with the content of a Hunk or Context row, or
\* with the diff-relative indices of the changed lines on its sides.
Shape(row) ==
  CASE row.type = "Modified" ->
         <<"Modified", row.beforeData.diffLineNumber, row.afterData.diffLineNumber>>
    [] row.type \in {"Added", "Deleted"} -> <<row.type, row.data.diffLineNumber>>
    [] OTHER -> <<row.type, row.content>>

\* The rows claimed for the run of changed lines `run`: the i-th deleted line
\* paired with the i-th added line while both sides last, then the rest of
\* the longer side, one line a row.
PairedRows(run) ==
  LET adds == LinesOfType(run, "Add")
      dels == LinesOfType(run, "Delete")
  IN [ n \in 1 .. Max(Cardinality(adds), Cardinality(dels)) |->
         IF n <= Cardinality(adds) /\ n <= Cardinality(dels)
         THEN <<"Modified", NthOf(dels, n) - 1, NthOf(adds, n) - 1>>
         ELSE IF n <= Cardinality(dels)
         THEN <<"Deleted", NthOf(dels, n) - 1>>
         ELSE <<"Added", NthOf(adds, n) - 1>> ]

\* The rows claimed for the diff from position i on: a row per Hunk or Context
\* line and the paired rows of each run, in input order.
RECURSIVE ClaimedRowsFrom(_)
ClaimedRowsFrom(i) ==
  IF i > Len(ParsedLines) THEN <<>>
  ELSE IF i \in ChangedPositions
  THEN PairedRows(RunAround(i)) \o ClaimedRowsFrom(i + Cardinality(RunAround(i)))
  ELSE << <<ParsedLines[i].type, ParsedLines[i].content>> >> \o ClaimedRowsFrom(i + 1)

\* C20: a run of a added and d deleted lines, however interleaved, yields
\* max(a, d) rows at the run's position: row i pairs the i-th deleted line
\* (before side) with the i-th added line (after side) for i < min(a, d), the
\* rest are Deleted rows (d > a) or Added rows (a > d) in input order; Hunk
\* and Context rows keep their input order relative to the runs.
C20_RunsPairedInOrder ==
  Rendered =>
    [k \in 1 .. Len(rows[1].rows) |-> Shape(rows[1].rows[k])] = ClaimedRowsFrom(1)

\* A rendered run that starts with an added line and has two deleted lines:
\* the first row pairs a deleted line with the added line above it, the
\* second deleted line has a row of its own.
C20_Witness ==
  /\ Rendered
  /\ \E k \in RowsOfType("Modified") :
       rows[1].rows[k].afterData.diffLineNumber < rows[1].rows[k].beforeData.diffLineNumber
  /\ RowsOfType("Deleted") # {}

\* ------------------------------------- claims on the hunk click and discard

\* The single call the last handler made, when it is a discard request.
DiscardRequested(made) == Len(made) = 1 /\ made[1].fn = "onDiscardChanges"

\* The run of changed lines row k of the rows on screen belongs to, as
\* diff-relative indices.
RunOfRow(k) ==
  LET row  == DisplayedRows[k]
      line == IF row.type = "Modified" THEN row.beforeData.diffLineNumber
              ELSE row.data.diffLineNumber
  IN {j - 1 : j \in RunAround(line + 1)}

\* C14: a discard request on line L of a selectable file with the collaborator
\* registered shows the menu for L, and picking its item hands the
\* collaborator the current diff and a selection with L selected and no other
\* line, whatever the persisted selection; the props (and with them the
\* persisted selection) are left as they are.
C14_DiscardLineSelectsOnlyThatLine ==
  [][ /\ \A L \in LineIndices :
           (onContextMenuLine(L) /\ canSelect(props.file) /\ props.onDiscardChanges) =>
              /\ menu' = Some([ label |-> "Discard line", file |-> props.file,
                                startLine |-> L, endLine |-> L ])
              /\ calls' = <<>>
              /\ props' = props
      /\ (MenuAction /\ menu[1].label = "Discard line" /\ props.onDiscardChanges) =>
              /\ DiscardRequested(calls')
              /\ calls'[1].arg.diff = props.diff
              /\ calls'[1].arg.selection = {menu[1].startLine}
              /\ props' = props
    ]_vars

\* The collaborator has been asked to discard one line of a two-line run
\* whose other line, and not this one, is in the persisted selection.
C14_Witness ==
  /\ handled = "onDiscardChanges"
  /\ DiscardRequested(calls)
  /\ \E L \in LineIndices :
       /\ calls[1].arg.selection = {L}
       /\ Cardinality(RunAround(L + 1)) = 2
       /\ props.file.selection = {j - 1 : j \in RunAround(L + 1)} \ {L}

\* C15: a discard request made from the hunk handle of any row of a run shows
\* the menu for the whole run (the row's hunkStartLine resolves to the run's
\* first and last line), and picking its item hands the collaborator a
\* selection of exactly the lines from the first to the last line of the run.
C15_DiscardHunkSelectsWholeRun ==
  [][ /\ \A k \in ChangeRows :
           ( /\ onContextMenuHunk(DisplayedRows[k].hunkStartLine)
             /\ canSelect(props.file) /\ props.onDiscardChanges ) =>
              /\ menu' # Undefined
              /\ menu'[1].label = "Discard lines"
              /\ menu'[1].startLine .. menu'[1].endLine = RunOfRow(k)
      /\ (MenuAction /\ menu[1].label = "Discard lines" /\ props.onDiscardChanges) =>
              /\ DiscardRequested(calls')
              /\ calls'[1].arg.selection = menu[1].startLine .. menu[1].endLine
              /\ \E k \in ChangeRows : calls'[1].arg.selection = RunOfRow(k)
    ]_vars

\* The collaborator has been asked to discard a run that is shown as two
\* rows, with both of its lines selected.
C15_Witness ==
  /\ handled = "onDiscardChanges"
  /\ DiscardRequested(calls)
  /\ Cardinality(ChangeRows) = 2
  /\ \A k \in ChangeRows : calls[1].arg.selection = RunOfRow(k)

\* Nothing happens in this step: no collaborator call, no menu, the component
\* state and the props as before.
NothingDone ==
  /\ calls' = <<>>
  /\ menu' = menu /\ menu' = Undefined
  /\ state' = state
  /\ listeners' = listeners
  /\ props' = props

\* C16: without onDiscardChanges registered a discard request on a line or on
\* a hunk, and without onIncludeChanged registered a click on a hunk handle,
\* does nothing: no collaborator call, no contextual menu, the component
\* state and the persisted selection unchanged.
C16_UnregisteredRequestsAreNoOps ==
  [][ /\ \A n \in LineIndices :
           (onContextMenuLine(n) /\ menu = Undefined /\ ~props.onDiscardChanges) => NothingDone
      /\ \A h \in LineIndices :
           (onContextMenuHunk(h) /\ menu = Undefined /\ ~props.onDiscardChanges) => NothingDone
      /\ \A h \in LineIndices, select \in BOOLEAN :
           (onClickHunk(h, select) /\ menu = Undefined /\ ~props.onIncludeChanged) => NothingDone
    ]_vars

\* A discard request on the hunk of a selectable file has been handled with no
\* collaborator registered: no menu is up and no call was made.
C16_Witness ==
  /\ handled = "onContextMenuHunk"
  /\ canSelect(props.file)
  /\ ~props.onDiscardChanges
  /\ menu = Undefined
  /\ calls = <<>>

\* ------------------------------------------- claims on the clone submission

\* The step dispatches a clone request for the submission that was resolving,
\* with the given URL and account and the path read at submission.
Dispatches(url, account) ==
  /\ Len(ccalls') = Len(ccalls) + 3
  /\ SubSeq(ccalls', 1, Len(ccalls)) = ccalls
  /\ ccalls'[Len(ccalls) + 1] =
       [fn |-> "clone", args |-> <<url, submission[1].path, account>>]

C18_UnswallowedFailureReenablesForm ==
  [][ RepositoryFetched("throws") =>
        /\ ccalls' = ccalls
        /\ dismissed' = dismissed
        /\ defaultDir' = defaultDir
        /\ ~cstate'.loading
        /\ cstate'.error = Some(FetchError)
        /\ disabled(cstate') = (cstate'.url = "" \/ cstate'.path.empty)
    ]_vars

\* The dialog is open with the failure displayed, nothing dispatched, and the
\* Clone button enabled again.
C18_Witness ==
  /\ cstate.error = Some(FetchError)
  /\ ~cstate.loading
  /\ ~dismissed
  /\ ccalls = <<>>
  /\ submission = Undefined
  /\ ~disabled(cstate)

\* The dialog was cancelled: onDismissed was called other than by cloneImpl.
Cancelled ==
  \E i \in 1 .. Len(ccalls) :
    /\ ccalls[i].fn = "onDismissed"
    /\ (i = 1 \/ ccalls[i - 1].fn # "clone")

DefaultDirWrites == {i \in 1 .. Len(ccalls) : ccalls[i].fn = "setDefaultDir"}

\* The parent directory of a destination: the destination is the path itself
\* when absolute and the path under the working directory otherwise; the
\* root has no parent but itself.
ParentOf(path) ==
  LET destination == IF path.abs THEN path.segs ELSE Cwd.segs \o path.segs
  IN AbsPath([i \in 1 .. (Len(destination) - 1) |-> destination[i]])

\* Every write of the default directory comes two calls after the dispatch
\* of a clone request (the dismissal lies between) and carries the parent of
\* the dispatched destination; with no write the store holds what the dialog
\* read when it opened.
DefaultDirWrittenAfterDispatch ==
  /\ \A i \in DefaultDirWrites :
       /\ i >= 3
       /\ ccalls[i - 2].fn = "clone"
       /\ ccalls[i].args = <<ParentOf(ccalls[i - 2].args[2])>>
  /\ DefaultDirWrites = {} => defaultDir = DefaultDir

\* C19: the default directory the dialog read when it opened is written only
\* by a submission that has dispatched its clone request first, with the
\* parent directory of the dispatched destination path; it is not written
\* when the resolution fails, nor when the dialog has been cancelled.
C19_DefaultDirWrittenOnlyAfterDispatch ==
  /\ DefaultDirWrittenAfterDispatch
  /\ Cancelled => DefaultDirWrites = {}

\* ------------------------------------------------- claims on a file change

\* C21: a drag touches only the file it started on: a transient selection is
\* never left over a file other than the one on display when the drag
\* started, and a pointer-up makes no onIncludeChanged call (which is built
\* from the persisted selection of the file on display) once that file has
\* been replaced.
C21_DragStaysOnItsFile ==
  [][ /\ state'.selection # Undefined => gestureFile' = Some(props'.file.id)
      /\ (DispatchMouseUp /\ IncludeCalls(calls') > 0) =>
            gestureFile = Some(props.file.id)
    ]_vars

\* ------------------------------------------ claims on the destination path

IsURLChange == \E input \in URLs : onURLChanged(input)

\* C22: whatever URL and destination changes came before, a URL change
\* leaves the destination at the path Q the user last left it at when the new
\* URL has no owner/name identifier, and at Q joined with the repository name
\* when it has one; so clearing the URL gives back the path the dialog
\* started from when no destination change came in between.
C22_PathFollowsTheChosenDestination ==
  [][ IsURLChange =>
        cstate'.path =
          IF cstate'.lastParsedIdentifier = Undefined THEN chosenPath
          ELSE PathJoin(chosenPath, cstate'.lastParsedIdentifier[1].name)
    ]_vars

====
